---- MODULE Spec2Model ----
(***************************************************************************)
(* Model of the buffer-transform nodes of the dsp crate:                   *)
(*   RealToComplexNode, ComplexToRealNode   (src/src/lib.rs)               *)
(*   GainNode, SumNode                      (src/src/signals.rs)           *)
(*                                                                         *)
(* A caller builds a pipeline of two nodes, both with one frame size as in  *)
(* the crate's tests, and then calls process on them in any order with     *)
(* frames of any length.  f32 samples are modelled by                      *)
(* small integers (finite values only), Complex32 by a record [re, im].    *)
(* Vec indices are 0-based in the loops below, as in the source; the       *)
(* sequence holding a Vec is read at i + 1.                                *)
(***************************************************************************)
EXTENDS Integers, Sequences, FiniteSets, TLC

(* ---------------------------------------------------------------- bounds *)
\* largest size / frame_size handed to a constructor
MaxCap == 2

\* inputs may be longer than every capacity
MaxLen == MaxCap + 1

\* names of the nodes of the pipeline
Nodes == {"x", "y"}

\* scale factors handed to GainNode::new
Scales == {2}

\* the pipelines a caller builds: kind of node x, kind of node y
Pipelines ==
    { <<"RealToComplexNode", "ComplexToRealNode">>,
      <<"GainNode", "SumNode">> }

(* ------------------------------------------------------------ data types *)
Complex32New(re, im) == [re |-> re, im |-> im]

\* The real input frames: an impulse (1, 0, 0, ...) and a step (1, 1, 1, ...),
\* cut to every length 0..MaxLen.
RealBuffer ==
    UNION { { [i \in 1..len |-> IF i = 1 THEN 1 ELSE 0],
              [i \in 1..len |-> 1] } : len \in 0..MaxLen }

\* imaginary parts of complex input samples
Imags == {0, 1}

\* The complex input frames: a real frame with one imaginary part throughout.
\* A frame handed from one node to the next is an input equal to the first
\* node's output: process only reads its input (a shared borrow).
ComplexBuffer ==
    { [i \in 1..Len(w) |-> Complex32New(w[i], im)] : w \in RealBuffer, im \in Imags }

Min(a, b) == IF a < b THEN a ELSE b

\* vec![v; size]
VecRepeat(v, size) == [i \in 1..size |-> v]

(* ---------------------------------------------------------- constructors *)
RealToComplexNew(size) == [output |-> VecRepeat(Complex32New(0, 0), size)]

ComplexToRealNew(size) == [output |-> VecRepeat(0, size)]

\* variant: the buffer is filled with the scale instead of 0.0
GainNewScale(scale, frame_size) == [scale |-> scale, output |-> VecRepeat(scale, frame_size)]

GainNew(scale, frame_size) == [scale |-> scale, output |-> VecRepeat(0, frame_size)]

SumNew(frame_size) == [output |-> VecRepeat(0, frame_size)]

(* --------------------------------------------------------------- process *)
(* Each loop returns the node after the call and whether an index was out  *)
(* of bounds (a panic, which leaves the writes made so far in place).      *)

\* variant: the sample goes to the imaginary part
RECURSIVE RealToComplexLoopImag(_, _, _, _)
RealToComplexLoopImag(self, input, i, n) ==
    IF i >= n THEN [self |-> self, panic |-> FALSE]
    ELSE IF i >= Len(input) \/ i >= Len(self.output) THEN [self |-> self, panic |-> TRUE]
    ELSE RealToComplexLoopImag(
            [self EXCEPT !.output[i + 1] = Complex32New(0, input[i + 1])],
            input, i + 1, n)

RECURSIVE RealToComplexLoop(_, _, _, _)
RealToComplexLoop(self, input, i, n) ==
    IF i >= n THEN [self |-> self, panic |-> FALSE]
    ELSE IF i >= Len(input) \/ i >= Len(self.output) THEN [self |-> self, panic |-> TRUE]
    ELSE RealToComplexLoop(
            [self EXCEPT !.output[i + 1] = Complex32New(input[i + 1], 0)],
            input, i + 1, n)

RealToComplexProcess(self, input) ==
    LET n == Min(Len(input), Len(self.output))
    IN  RealToComplexLoop(self, input, 0, n)

\* variant: the imaginary part is kept instead of the real part
RECURSIVE ComplexToRealLoopImag(_, _, _, _)
ComplexToRealLoopImag(self, input, i, n) ==
    IF i >= n THEN [self |-> self, panic |-> FALSE]
    ELSE IF i >= Len(input) \/ i >= Len(self.output) THEN [self |-> self, panic |-> TRUE]
    ELSE ComplexToRealLoopImag(
            [self EXCEPT !.output[i + 1] = input[i + 1].im],
            input, i + 1, n)

RECURSIVE ComplexToRealLoop(_, _, _, _)
ComplexToRealLoop(self, input, i, n) ==
    IF i >= n THEN [self |-> self, panic |-> FALSE]
    ELSE IF i >= Len(input) \/ i >= Len(self.output) THEN [self |-> self, panic |-> TRUE]
    ELSE ComplexToRealLoop(
            [self EXCEPT !.output[i + 1] = input[i + 1].re],
            input, i + 1, n)

\* variant: the buffer is cleared before the loop (trailing positions zeroed)
ComplexToRealProcessClear(self, input) ==
    LET n == Min(Len(input), Len(self.output))
    IN  ComplexToRealLoop([self EXCEPT !.output = VecRepeat(0, Len(self.output))], input, 0, n)

ComplexToRealProcess(self, input) ==
    LET n == Min(Len(input), Len(self.output))
    IN  ComplexToRealLoop(self, input, 0, n)

\* variant: the product is accumulated into the buffer (+=)
RECURSIVE GainLoopAccumulate(_, _, _, _)
GainLoopAccumulate(self, input, i, n) ==
    IF i >= n THEN [self |-> self, panic |-> FALSE]
    ELSE IF i >= Len(input) \/ i >= Len(self.output) THEN [self |-> self, panic |-> TRUE]
    ELSE GainLoopAccumulate(
            [self EXCEPT !.output[i + 1] = @ + self.scale * input[i + 1]],
            input, i + 1, n)

\* variant: the scale is added instead of multiplied
RECURSIVE GainLoopAdd(_, _, _, _)
GainLoopAdd(self, input, i, n) ==
    IF i >= n THEN [self |-> self, panic |-> FALSE]
    ELSE IF i >= Len(input) \/ i >= Len(self.output) THEN [self |-> self, panic |-> TRUE]
    ELSE GainLoopAdd(
            [self EXCEPT !.output[i + 1] = self.scale + input[i + 1]],
            input, i + 1, n)

RECURSIVE GainLoop(_, _, _, _)
GainLoop(self, input, i, n) ==
    IF i >= n THEN [self |-> self, panic |-> FALSE]
    ELSE IF i >= Len(input) \/ i >= Len(self.output) THEN [self |-> self, panic |-> TRUE]
    ELSE GainLoop(
            [self EXCEPT !.output[i + 1] = self.scale * input[i + 1]],
            input, i + 1, n)

\* variant: the buffer is rebuilt from the whole input (map and collect)
GainProcessCollect(self, input) ==
    [self |-> [self EXCEPT !.output = [i \in 1..Len(input) |-> self.scale * input[i]]],
     panic |-> FALSE]

GainProcess(self, input) ==
    LET n == Min(Len(input), Len(self.output))
    IN  GainLoop(self, input, 0, n)

\* variant: the difference instead of the sum
RECURSIVE SumLoopSub(_, _, _, _, _)
SumLoopSub(self, input1, input2, i, n) ==
    IF i >= n THEN [self |-> self, panic |-> FALSE]
    ELSE IF i >= Len(input1) \/ i >= Len(input2) \/ i >= Len(self.output)
         THEN [self |-> self, panic |-> TRUE]
    ELSE SumLoopSub(
            [self EXCEPT !.output[i + 1] = input1[i + 1] - input2[i + 1]],
            input1, input2, i + 1, n)

RECURSIVE SumLoop(_, _, _, _, _)
SumLoop(self, input1, input2, i, n) ==
    IF i >= n THEN [self |-> self, panic |-> FALSE]
    ELSE IF i >= Len(input1) \/ i >= Len(input2) \/ i >= Len(self.output)
         THEN [self |-> self, panic |-> TRUE]
    ELSE SumLoop(
            [self EXCEPT !.output[i + 1] = input1[i + 1] + input2[i + 1]],
            input1, input2, i + 1, n)

\* variant: the length of input2 is left out of n
SumProcessUnchecked(self, input1, input2) ==
    LET n == Min(Len(input1), Len(self.output))
    IN  SumLoop(self, input1, input2, 0, n)

SumProcess(self, input1, input2) ==
    LET n == Min(Min(Len(input1), Len(input2)), Len(self.output))
    IN  SumLoop(self, input1, input2, 0, n)

(* ----------------------------------------------------------------- state *)
VARIABLES
    kind,       \* kind[p]: which struct node p is
    size,       \* size[p]: the size / frame_size handed to p's constructor
    factor,     \* factor[p]: the scale handed to p's constructor (GainNode only)
    node,       \* node[p]: the struct, [output] or [scale, output]
    panicked,   \* an index was out of bounds: the program has aborted
    last,       \* history: the node most recently called, "none" before any call
    called,     \* history: called[p], process has been called on p
    input1,     \* history: the (first) input of the latest call on p
    input2,     \* history: the second input of the latest call on p (SumNode)
    src         \* history: src[p][i + 1], the input samples at index i of the
                \* latest call on p whose truncation length exceeded i; <<>> if none

vars == <<kind, size, factor, node, panicked, last, called, input1, input2, src>>

New(k, scale, sz) ==
    CASE k = "RealToComplexNode" -> RealToComplexNew(sz)
      [] k = "ComplexToRealNode" -> ComplexToRealNew(sz)
      [] k = "GainNode"          -> GainNew(scale, sz)
      [] k = "SumNode"           -> SumNew(sz)

Init ==
    /\ \E pl \in Pipelines : kind = [p \in Nodes |-> IF p = "x" THEN pl[1] ELSE pl[2]]
    /\ \E frame_size \in 0..MaxCap : size = [p \in Nodes |-> frame_size]
    /\ factor \in [Nodes -> Scales]
    /\ node = [p \in Nodes |-> New(kind[p], factor[p], size[p])]
    /\ panicked = FALSE
    /\ last = "none"
    /\ called = [p \in Nodes |-> FALSE]
    /\ input1 = [p \in Nodes |-> <<>>]
    /\ input2 = [p \in Nodes |-> <<>>]
    /\ src = [p \in Nodes |-> [i \in 1..size[p] |-> <<>>]]

\* the history of a call on p with inputs a, b (b = <<>> for the one-input
\* nodes) whose truncation length is m; samples[i] are the inputs' samples at i
Record(p, a, b, m, samples) ==
    /\ last' = p
    /\ called' = [called EXCEPT ![p] = TRUE]
    /\ input1' = [input1 EXCEPT ![p] = a]
    /\ input2' = [input2 EXCEPT ![p] = b]
    /\ src' = [src EXCEPT ![p] = [i \in 1..size[p] |-> IF i <= m THEN samples[i] ELSE src[p][i]]]

\* variant: the nodes with real output write to one shared buffer
CallShared(p, r) ==
    /\ node' = [q \in Nodes |->
                    IF q = p THEN r.self
                    ELSE IF kind[p] # "RealToComplexNode" /\ kind[q] # "RealToComplexNode"
                         THEN [node[q] EXCEPT !.output = r.self.output]
                         ELSE node[q]]
    /\ panicked' = r.panic
    /\ UNCHANGED <<kind, size, factor>>

\* process(&mut self, ..): the call rewrites the struct of p alone
Call(p, r) ==
    /\ node' = [node EXCEPT ![p] = r.self]
    /\ panicked' = r.panic
    /\ UNCHANGED <<kind, size, factor>>

RealToComplexNode_process(p, input) ==
    /\ ~panicked
    /\ kind[p] = "RealToComplexNode"
    /\ Call(p, RealToComplexProcess(node[p], input))
    /\ Record(p, input, <<>>, Min(Len(input), size[p]),
              [i \in 1..Len(input) |-> <<input[i]>>])

ComplexToRealNode_process(p, input) ==
    /\ ~panicked
    /\ kind[p] = "ComplexToRealNode"
    /\ Call(p, ComplexToRealProcess(node[p], input))
    /\ Record(p, input, <<>>, Min(Len(input), size[p]),
              [i \in 1..Len(input) |-> <<input[i]>>])

GainNode_process(p, input) ==
    /\ ~panicked
    /\ kind[p] = "GainNode"
    /\ Call(p, GainProcess(node[p], input))
    /\ Record(p, input, <<>>, Min(Len(input), size[p]),
              [i \in 1..Len(input) |-> <<input[i]>>])

SumNode_process(p, in1, in2) ==
    /\ ~panicked
    /\ kind[p] = "SumNode"
    /\ Call(p, SumProcess(node[p], in1, in2))
    /\ Record(p, in1, in2, Min(Min(Len(in1), Len(in2)), size[p]),
              [i \in 1..Min(Len(in1), Len(in2)) |-> <<in1[i], in2[i]>>])

Next ==
    \/ \E p \in Nodes, input \in RealBuffer : RealToComplexNode_process(p, input)
    \/ \E p \in Nodes, input \in ComplexBuffer : ComplexToRealNode_process(p, input)
    \/ \E p \in Nodes, input \in RealBuffer : GainNode_process(p, input)
    \/ \E p \in Nodes, in1 \in RealBuffer, in2 \in RealBuffer : SumNode_process(p, in1, in2)

Spec == Init /\ [][Next]_vars

(* ================================================================ claims *)
\* the truncation length n of the latest call on p, from its recorded inputs
\* and the capacity p was constructed with
TruncLen(p) ==
    IF kind[p] = "SumNode"
    THEN Min(Min(Len(input1[p]), Len(input2[p])), size[p])
    ELSE Min(Len(input1[p]), size[p])

\* the value a buffer position holds at construction
Zero(p) == IF kind[p] = "RealToComplexNode" THEN Complex32New(0, 0) ELSE 0

\* the value the documentation gives an output position whose input samples are s
Computed(p, s) ==
    CASE kind[p] = "RealToComplexNode" -> Complex32New(s[1], 0)
      [] kind[p] = "ComplexToRealNode" -> s[1].re
      [] kind[p] = "GainNode"          -> factor[p] * s[1]
      [] kind[p] = "SumNode"           -> s[1] + s[2]

\* what a newly constructed node of p's configuration returns for the inputs of
\* the latest call on p
FreshRun(p) ==
    LET fresh == New(kind[p], factor[p], size[p])
    IN  CASE kind[p] = "RealToComplexNode" -> RealToComplexProcess(fresh, input1[p]).self.output
          [] kind[p] = "ComplexToRealNode" -> ComplexToRealProcess(fresh, input1[p]).self.output
          [] kind[p] = "GainNode"          -> GainProcess(fresh, input1[p]).self.output
          [] kind[p] = "SumNode"           -> SumProcess(fresh, input1[p], input2[p]).self.output

\* C1: the frame held (and returned) by every node has exactly the length the
\* node was constructed with, after any calls with inputs of any length.
C1_FrameLengthFixed ==
    \A p \in Nodes : Len(node[p].output) = size[p]

\* a node has been called with an input longer than its capacity, the other
\* node with an empty one
C1_Witness ==
    \E p \in Nodes, q \in Nodes :
        /\ p # q /\ called[p] /\ called[q]
        /\ size[p] >= 1 /\ Len(input1[p]) > size[p]
        /\ size[q] >= 1 /\ Len(input1[q]) = 0

\* C2: a call rewrites only the positions below n = min(input lengths,
\* capacity); every position at or beyond n keeps the value it held before the
\* call, and the buffer keeps its length.
C2_TrailingRetained ==
    [][\A p \in Nodes :
          last' = p =>
              /\ Len(node'[p].output) = Len(node[p].output)
              /\ \A i \in 1..Len(node[p].output) :
                    i > TruncLen(p)' => node'[p].output[i] = node[p].output[i]]_vars

\* the latest call was shorter than the buffer and a position beyond n still
\* holds a value written by an earlier call
C2_Witness ==
    \E p \in Nodes :
        /\ last = p
        /\ TruncLen(p) < size[p]
        /\ \E i \in (TruncLen(p) + 1)..size[p] : node[p].output[i] # Zero(p)

\* C3 as stated: the frame a node holds after a call is the frame a newly
\* constructed node of the same configuration returns for the same input,
\* whatever calls the node received before.
C3_StatelessPureMap ==
    \A p \in Nodes : called[p] => node[p].output = FreshRun(p)

\* C3 amended: the first n positions of the frame are those a newly constructed
\* node of the same configuration returns for the same input (the whole frame
\* when no input is shorter than the capacity).
C3_PrefixPureMap ==
    \A p \in Nodes :
        called[p] =>
            /\ Len(node[p].output) = Len(FreshRun(p))
            /\ \A i \in 1..TruncLen(p) : node[p].output[i] = FreshRun(p)[i]

\* the first n >= 1 positions agree with the new node's, a later one does not
C3_Witness ==
    \E p \in Nodes :
        /\ called[p]
        /\ TruncLen(p) >= 1
        /\ node[p].output # FreshRun(p)

\* C4: after GainNode::process(A) with len(A) >= k, position i of the frame is
\* g * A[i] for every i < k.
C4_GainScales ==
    \A p \in Nodes :
        (kind[p] = "GainNode" /\ called[p] /\ Len(input1[p]) >= size[p]) =>
            /\ Len(node[p].output) = size[p]
            /\ \A i \in 1..size[p] : node[p].output[i] = factor[p] * input1[p][i]

\* a gain node of capacity >= 2 was given a longer impulse
C4_Witness ==
    \E p \in Nodes :
        /\ kind[p] = "GainNode" /\ last = p
        /\ size[p] >= 2 /\ Len(input1[p]) > size[p]
        /\ input1[p][1] # input1[p][2]

\* C5: after SumNode::process(a, b), position i of the frame is a[i] + b[i] for
\* every i < min(len(a), len(b), k).
C5_SumElementwise ==
    \A p \in Nodes :
        (kind[p] = "SumNode" /\ called[p]) =>
            \A i \in 1..TruncLen(p) :
                /\ i <= Len(node[p].output)
                /\ node[p].output[i] = input1[p][i] + input2[p][i]

\* a sum node was given two different frames of different lengths, n >= 2
C5_Witness ==
    \E p \in Nodes :
        /\ kind[p] = "SumNode" /\ last = p
        /\ TruncLen(p) >= 2
        /\ Len(input1[p]) # Len(input2[p])
        /\ input1[p][2] # input2[p][2]

\* C6: after RealToComplexNode::process(A) with len(A) = k, position i of the
\* frame is (A[i], 0) for every i < k.
C6_RealToComplex ==
    \A p \in Nodes :
        (kind[p] = "RealToComplexNode" /\ called[p] /\ Len(input1[p]) = size[p]) =>
            /\ Len(node[p].output) = size[p]
            /\ \A i \in 1..size[p] :
                  /\ node[p].output[i].re = input1[p][i]
                  /\ node[p].output[i].im = 0

\* a conversion node of capacity >= 2 was given an impulse of its length
C6_Witness ==
    \E p \in Nodes :
        /\ kind[p] = "RealToComplexNode" /\ last = p
        /\ size[p] >= 2 /\ Len(input1[p]) = size[p]
        /\ input1[p][2] = 0

\* C7: when a ComplexToRealNode of capacity k has just processed the frame a
\* RealToComplexNode of capacity k returned for a real frame A of length k, the
\* frame it returns is A.
C7_RoundTrip ==
    \A p \in Nodes, q \in Nodes :
        ( /\ kind[p] = "RealToComplexNode" /\ kind[q] = "ComplexToRealNode"
          /\ size[p] = size[q]
          /\ called[p] /\ Len(input1[p]) = size[p]
          /\ last = q /\ input1[q] = node[p].output ) =>
            node[q].output = input1[p]

\* the round trip of an impulse of length k >= 2 has been made
C7_Witness ==
    \E p \in Nodes, q \in Nodes :
        /\ kind[p] = "RealToComplexNode" /\ kind[q] = "ComplexToRealNode"
        /\ size[p] = size[q] /\ size[p] >= 2
        /\ called[p] /\ Len(input1[p]) = size[p] /\ input1[p][2] = 0
        /\ last = q /\ input1[q] = node[p].output

\* C8: no call reads or writes an index out of bounds.
C8_NoPanic ==
    ~panicked

\* a sum node of capacity 0 given two non-empty inputs of different lengths
\* and a gain node of capacity 0 given an empty input have returned
C8_Witness ==
    /\ ~panicked
    /\ \E p \in Nodes :
          /\ kind[p] = "SumNode" /\ last = p /\ size[p] = 0
          /\ Len(input1[p]) > Len(input2[p]) /\ Len(input2[p]) > 0
    /\ \E q \in Nodes : kind[q] = "GainNode" /\ called[q] /\ Len(input1[q]) = 0

\* C9: a call on one node leaves the struct of every other node as it was; in
\* particular an input that is another node's frame is still that node's frame
\* after the call.
C9_NoSharedBuffer ==
    [][\A p \in Nodes, q \in Nodes :
          (last' = p /\ q # p) =>
              /\ node'[q] = node[q]
              /\ (input1'[p] = node[q].output => node'[q].output = input1'[p])]_vars

\* a node has just processed the frame held by the other node, and now holds a
\* different frame
C9_Witness ==
    \E p \in Nodes, q \in Nodes :
        /\ p # q /\ last = p /\ called[q]
        /\ Len(input1[p]) >= 1
        /\ input1[p] = node[q].output
        /\ Len(node[p].output) >= 1

\* C10: position i of a node's buffer holds the value computed from the input
\* samples at i of the latest call whose truncation length exceeded i, and the
\* zero of construction if there was no such call.
C10_LatestWriterOrZero ==
    \A p \in Nodes :
        /\ Len(node[p].output) = size[p]
        /\ \A i \in 1..size[p] :
              node[p].output[i] =
                  IF src[p][i] = <<>> THEN Zero(p) ELSE Computed(p, src[p][i])

\* a node never given an input as long as its buffer returns its last position
\* as constructed, after positions written by the input
C10_Witness ==
    \E p \in Nodes :
        /\ called[p]
        /\ TruncLen(p) >= 1 /\ TruncLen(p) < size[p]
        /\ node[p].output[1] # Zero(p)
        /\ src[p][size[p]] = <<>>
        /\ node[p].output[size[p]] = Zero(p)

====
